---- MODULE Spec2Model ----
(***************************************************************************)
(* A model of SciFig's adaptive statistical decision engine:               *)
(*   - StatisticalBrain.recommend_test and recommend_statistical_test,     *)
(*     the two rule-based recommenders;                                    *)
(*   - EngineOrchestrator.run_analysis, the profile -> recommend ->        *)
(*     execute -> package pipeline with its single try/except boundary;    *)
(*   - PublicationVizEngine._detect_and_convert_event_variable, the event  *)
(*     coding normalizer, and _validate_survival_data;                     *)
(*   - the survival paths: create_kaplan_meier_plot and the two            *)
(*     perform_survival_analysis functions of the servers;                 *)
(*   - AssumptionChecker.check_normality and                               *)
(*     DataProfiler._determine_variable_type as pure functions.            *)
(*                                                                         *)
(* Conventions.  An Optional value is a sequence: << >> is None and <<x>>  *)
(* is the value x.  A confidence is kept in hundredths (0.9 is 90).  A     *)
(* Python string that the code inspects character by character is a        *)
(* sequence of one-character strings.                                      *)
(***************************************************************************)
EXTENDS Integers, Sequences, FiniteSets, TLC

VARIABLES
    pc,              \* position of the running call
    profile,         \* DataProfile handed to / built by the engine
    recommendation,  \* value returned by StatisticalBrain.recommend_test
    api_recommendation, \* value returned by recommend_statistical_test
    inp,             \* arguments of run_analysis (the rows and column names)
    result,          \* StatisticalResult built by the executor
    raised,          \* exception raised inside run_analysis (Optional)
    outcome,         \* value returned by run_analysis to its caller
    event_column,    \* column handed to the event normalizer
    converted,       \* value returned by the event normalizer
    lifelines_calls  \* the calls made to lifelines, in order, with their arguments

vars == <<pc, profile, recommendation, api_recommendation, inp,
          result, raised, outcome, event_column, converted, lifelines_calls>>

None == << >>
Some(x) == <<x>>
IsNone(x) == x = << >>
Truthy(x) == x # << >> /\ x[1] # 0

Min(a, b) == IF a <= b THEN a ELSE b

(***************************************************************************)
(* Bounds of the model.                                                    *)
(***************************************************************************)
MaxSampleSize == 32
MaxGroups == 4

(***************************************************************************)
(* TestType (enum values).                                                 *)
(***************************************************************************)
T_TEST == "t_test"
ONE_WAY_ANOVA == "one_way_anova"
CHI_SQUARE == "chi_square"
FISHER_EXACT == "fisher_exact"
MANN_WHITNEY == "mann_whitney"
KRUSKAL_WALLIS == "kruskal_wallis"
KAPLAN_MEIER == "kaplan_meier"

(***************************************************************************)
(* StatisticalBrain.recommend_test                                         *)
(***************************************************************************)
Rec(test, confidence, reason) ==
    [test |-> test, confidence |-> confidence, reason |-> reason]

\* if profile.sample_size >= 30
TTestSizeGateStrict(p) == p.sample_size > 30
TTestSizeGate(p) == p.sample_size >= 30

\* the branch  if profile.outcome_type == 'continuous':
ContinuousRulesAnovaGated(p) ==
    IF p.n_groups = Some(2)
    THEN (IF TTestSizeGate(p)
          THEN <<Rec(T_TEST, 90, "Two groups, continuous outcome, adequate sample size")>>
          ELSE << >>)
         \o <<Rec(MANN_WHITNEY, 80, "Non-parametric alternative for two groups")>>
    ELSE IF Truthy(p.n_groups) /\ p.n_groups[1] > 2
    THEN (IF TTestSizeGate(p)
          THEN <<Rec(ONE_WAY_ANOVA, 90, "groups, continuous outcome")>>
          ELSE << >>)
         \o <<Rec(KRUSKAL_WALLIS, 80, "Non-parametric alternative for multiple groups")>>
    ELSE << >>
ContinuousRules(p) ==
    IF p.n_groups = Some(2)
    THEN (IF TTestSizeGate(p)
          THEN <<Rec(T_TEST, 90, "Two groups, continuous outcome, adequate sample size")>>
          ELSE << >>)
         \o <<Rec(MANN_WHITNEY, 80, "Non-parametric alternative for two groups")>>
    ELSE IF Truthy(p.n_groups) /\ p.n_groups[1] > 2
    THEN <<Rec(ONE_WAY_ANOVA, 90, "groups, continuous outcome"),
           Rec(KRUSKAL_WALLIS, 80, "Non-parametric alternative for multiple groups")>>
    ELSE << >>

\* the branch  elif profile.outcome_type == 'categorical':
CategoricalRulesFisherAlways(p) ==
    IF Truthy(p.n_groups) /\ p.n_groups[1] >= 2
    THEN <<Rec(CHI_SQUARE, 90, "Categorical outcome with groups"),
           Rec(FISHER_EXACT, 80, "Exact test for 2x2 contingency table")>>
    ELSE << >>
CategoricalRules(p) ==
    IF Truthy(p.n_groups) /\ p.n_groups[1] >= 2
    THEN <<Rec(CHI_SQUARE, 90, "Categorical outcome with groups")>>
         \o (IF p.n_groups = Some(2)
             THEN <<Rec(FISHER_EXACT, 80, "Exact test for 2x2 contingency table")>>
             ELSE << >>)
    ELSE << >>

\* recommendations, in the order of the appends
Candidates(p) ==
    IF p.outcome_type = "continuous" THEN ContinuousRules(p)
    ELSE IF p.outcome_type = "categorical" THEN CategoricalRules(p)
    ELSE << >>

\* recommendations.sort(key=lambda x: x['confidence'], reverse=True):
\* a stable sort, highest confidence first
RECURSIVE InsertByConfidence(_, _)
InsertByConfidence(r, s) ==
    IF s = << >> THEN <<r>>
    ELSE IF s[1].confidence >= r.confidence
         THEN <<s[1]>> \o InsertByConfidence(r, Tail(s))
         ELSE <<r>> \o s

RECURSIVE SortByConfidence(_)
SortByConfidence(s) ==
    IF s = << >> THEN << >>
    ELSE InsertByConfidence(s[Len(s)], SortByConfidence(SubSeq(s, 1, Len(s) - 1)))

\* recommendations[1:3] if len(recommendations) > 1 else []
Alternatives(recs) ==
    IF Len(recs) > 1 THEN SubSeq(recs, 2, Min(3, Len(recs))) ELSE << >>

recommend_test(p) ==
    LET recs == SortByConfidence(Candidates(p))
    IN  [primary      |-> IF recs # << >> THEN recs[1].test ELSE T_TEST,
         alternatives |-> Alternatives(recs),
         reasoning    |-> IF recs # << >> THEN recs[1].reason ELSE "Default test"]

(***************************************************************************)
(* scifig_api_server.recommend_statistical_test: returns the pair          *)
(* (primary, alternative) or raises.  A raise is the record with ok FALSE. *)
(***************************************************************************)
ApiPair(primary, alternative) ==
    [ok |-> TRUE, primary |-> primary, alternative |-> alternative]
ApiRaise(msg) == [ok |-> FALSE, error |-> msg]

recommend_statistical_test(p) ==
    IF p.time_variable # None /\ p.event_variable # None
    THEN ApiPair("survival_analysis", None)
    ELSE IF p.outcome_type = "continuous"
    THEN IF p.n_groups = Some(2)
         THEN ApiPair("independent_ttest", Some("mann_whitney_u"))
         ELSE IF IsNone(p.n_groups)
         THEN ApiRaise("TypeError: '>' not supported between NoneType and int")
         ELSE IF p.n_groups[1] > 2
         THEN ApiPair("one_way_anova", Some("kruskal_wallis"))
         ELSE ApiRaise("Continuous outcomes require at least 2 groups for comparison")
    ELSE IF p.outcome_type = "categorical"
    THEN IF IsNone(p.n_groups)
         THEN ApiRaise("TypeError: '>=' not supported between NoneType and int")
         ELSE IF p.n_groups[1] >= 2
         THEN ApiPair("chi_square", Some("fisher_exact"))
         ELSE ApiRaise("Categorical outcomes require at least 2 groups for comparison")
    ELSE ApiRaise("No suitable test found for this data profile")

(***************************************************************************)
(* The recommenders as pure functions: Init draws a DataProfile, the       *)
(* actions apply each recommender to it.                                   *)
(***************************************************************************)
OptionalGroups == {None} \cup {Some(n) : n \in 0..MaxGroups}
OptionalName(name) == {None, Some(name)}

\* dataclass DataProfile (the fields the recommenders read)
DataProfiles ==
    [sample_size    : 0..MaxSampleSize,
     outcome_type   : {"continuous", "categorical"},
     n_groups       : OptionalGroups,
     time_variable  : OptionalName("time"),
     event_variable : OptionalName("event")]

Idle == "idle"

InitBrain ==
    /\ pc = "brain"
    /\ profile \in DataProfiles
    /\ recommendation = None
    /\ api_recommendation = None
    /\ inp = Idle
    /\ result = None
    /\ raised = None
    /\ outcome = None
    /\ event_column = << >>
    /\ converted = None
    /\ lifelines_calls = << >>

RecommendTest ==
    /\ pc = "brain"
    /\ recommendation = None
    /\ recommendation' = Some(recommend_test(profile))
    /\ UNCHANGED <<pc, profile, api_recommendation, inp, result,
                   raised, outcome, event_column, converted, lifelines_calls>>

RecommendStatisticalTest ==
    /\ pc = "brain"
    /\ api_recommendation = None
    /\ api_recommendation' = Some(recommend_statistical_test(profile))
    /\ UNCHANGED <<pc, profile, recommendation, inp, result,
                   raised, outcome, event_column, converted, lifelines_calls>>

NextBrain == RecommendTest \/ RecommendStatisticalTest

SpecBrain == InitBrain /\ [][NextBrain]_vars

(***************************************************************************)
(* The rows handed to run_analysis.  A row maps the column names to cells; *)
(* a cell is an Optional value (None is a missing value, NaN), and a value *)
(* is tagged with its Python type.  pd.DataFrame(data) of an empty list    *)
(* has no columns.                                                         *)
(***************************************************************************)
MaxRows == 31
MaxDistinct == 11
MaxLabels == 3
MaxMissingGroup == 1
MaxMissingOutcome == 2

Num(j) == [kind |-> "num", v |-> j]
Str(j) == [kind |-> "str", v |-> j]

RowCounts == (0..4) \cup {12, 24} \cup (29..MaxRows)
DistinctCounts == (1..2) \cup (8..MaxDistinct)

\* n rows: the outcome cycles through k values (numbers or strings), the
\* group through ng labels (Str(1), Str(2), ...); the first nanG rows miss
\* their group and the last nanY rows miss their outcome
MakeRows(n, k, numeric, ng, nanG, nanY) ==
    [i \in 1..n |->
        [group   |-> IF i <= nanG THEN None
                     ELSE Some(Str(((i - 1) % ng) + 1)),
         outcome |-> IF i > n - nanY THEN None
                     ELSE Some(IF numeric THEN Num((i - 1) % k)
                                          ELSE Str((i - 1) % k))]]

Datasets ==
    {MakeRows(n, k, numeric, ng, nanG, nanY) :
        n \in RowCounts, k \in DistinctCounts, numeric \in BOOLEAN,
        ng \in 1..MaxLabels, nanG \in 0..MaxMissingGroup, nanY \in 0..MaxMissingOutcome}

\* df.columns
Columns(data) == IF data = << >> THEN {} ELSE DOMAIN data[1]
\* df[name]
Column(data, name) == [i \in DOMAIN data |-> data[i][name]]
\* series.dropna()
DropNa(series) == SelectSeq(series, LAMBDA cell : cell # None)
\* series.unique(): the distinct cells in order of first appearance
RECURSIVE UniqueFrom(_, _)
UniqueFrom(series, seen) ==
    IF series = << >> THEN << >>
    ELSE IF series[1] \in seen THEN UniqueFrom(Tail(series), seen)
    ELSE <<series[1]>> \o UniqueFrom(Tail(series), seen \cup {series[1]})
Unique(series) == UniqueFrom(series, {})
\* series.nunique()
NUnique(series) == Cardinality({series[i] : i \in DOMAIN series} \ {None})
\* series.value_counts().to_dict(): missing values are not counted
ValueCounts(series) ==
    [c \in {series[i] : i \in DOMAIN series} \ {None} |->
        Cardinality({i \in DOMAIN series : series[i] = c})]
\* pd.api.types.is_numeric_dtype(series)
IsNumericDtype(series) ==
    series # << >> /\ \A i \in DOMAIN series : series[i] = None \/ series[i][1].kind = "num"

(***************************************************************************)
(* DataProfiler                                                            *)
(***************************************************************************)
\* _determine_variable_type
determine_variable_type_ratio_only(series) ==
    LET clean_series == DropNa(series)
        unique_count == NUnique(clean_series)
        total_count  == Len(clean_series)
    IN  IF total_count = 0 THEN "categorical"
        ELSE IF IsNumericDtype(clean_series)
        THEN IF unique_count * 100 < 5 * total_count
             THEN "categorical" ELSE "continuous"
        ELSE "categorical"
determine_variable_type(series) ==
    LET clean_series == DropNa(series)
        unique_count == NUnique(clean_series)
        total_count  == Len(clean_series)
    IN  IF total_count = 0 THEN "categorical"
        ELSE IF IsNumericDtype(clean_series)
        THEN IF unique_count < 10 \/ unique_count * 100 < 5 * total_count
             THEN "categorical" ELSE "continuous"
        ELSE "categorical"

\* is_paired = sizes[0] == sizes[1] and sample_size == sizes[0] * 2
IsPairedSizesOnly(group_sizes, sample_size) ==
    \E a, b \in DOMAIN group_sizes :
        /\ a # b
        /\ group_sizes[a] = group_sizes[b]
IsPaired(group_sizes, sample_size) ==
    \E a, b \in DOMAIN group_sizes :
        /\ a # b
        /\ group_sizes[a] = group_sizes[b]
        /\ sample_size = group_sizes[a] * 2

\* profile_data raises KeyError at df[outcome_var] for an unknown column
ProfileRaises(a) == a.outcome_var \notin Columns(a.data)

profile_data(a) ==
    LET df == a.data
        grouped == a.group_var # None /\ a.group_var[1] \in Columns(df)
        unique_groups == IF grouped THEN Unique(DropNa(Column(df, a.group_var[1]))) ELSE << >>
        group_sizes == IF grouped THEN ValueCounts(Column(df, a.group_var[1])) ELSE << >>
    IN  [sample_size      |-> Len(df),
         outcome_variable |-> a.outcome_var,
         outcome_type     |-> determine_variable_type(Column(df, a.outcome_var)),
         variables        |-> Columns(df),
         group_variable   |-> a.group_var,
         time_variable    |-> a.time_var,
         event_variable   |-> a.event_var,
         is_paired        |-> grouped /\ Len(unique_groups) = 2
                                 /\ IsPaired(group_sizes, Len(df)),
         n_groups         |-> IF grouped THEN Some(Len(unique_groups)) ELSE None,
         group_labels     |-> IF grouped THEN Some(unique_groups) ELSE None,
         group_sizes      |-> IF grouped THEN Some(group_sizes) ELSE None]

(***************************************************************************)
(* StatisticalExecutor and the two workflows of EngineOrchestrator.  The   *)
(* numbers scipy computes are outside the model: a workflow is modelled by *)
(* whether it raises, by the variant it runs and by the result it names.   *)
(***************************************************************************)
\* df[df[group_var] == g][outcome_var].dropna().values; a comparison with a
\* missing value is False for every row
GroupData(df, outcome_var, group_var, g) ==
    LET RECURSIVE Pick(_)
        Pick(i) ==
            IF i > Len(df) THEN << >>
            ELSE (IF g # None /\ df[i][group_var] = g /\ df[i][outcome_var] # None
                  THEN <<df[i][outcome_var]>> ELSE << >>) \o Pick(i + 1)
    IN  Pick(1)

\* AssumptionResult(test, passed, p_value, statistic, reason)
AssumptionResult(test, passed, p_value, statistic, reason) ==
    [test |-> test, passed |-> passed, p_value |-> p_value,
     statistic |-> statistic, reason |-> reason]

\* A p-value is kept in thousandths (0.05 is 50); NaN is the p-value scipy
\* returns when it cannot compute one, Raises stands for a scipy call that
\* raised instead of returning
Alpha == 50
NaN == -1
Raises == -2
\* p_value > alpha, as floats compare: False for NaN
GreaterThan(p_value, alpha) == p_value # NaN /\ p_value > alpha

\* AssumptionChecker.check_normality, given what stats.shapiro does
check_normality_no_minimum(data, alpha, shapiro) ==
    IF shapiro = Raises
    THEN AssumptionResult("shapiro_wilk", FALSE, None, None, Some("Test failed"))
    ELSE AssumptionResult("shapiro_wilk", GreaterThan(shapiro, alpha), Some(shapiro),
                          Some("statistic"),
                          Some(IF GreaterThan(shapiro, alpha) THEN "normal" ELSE "non-normal"))
check_normality(data, alpha, shapiro) ==
    IF Len(data) < 3
    THEN AssumptionResult("shapiro_wilk", FALSE, None, None,
                          Some("Insufficient data for normality test"))
    ELSE IF shapiro = Raises
    THEN AssumptionResult("shapiro_wilk", FALSE, None, None, Some("Test failed"))
    ELSE AssumptionResult("shapiro_wilk", GreaterThan(shapiro, alpha), Some(shapiro),
                          Some("statistic"),
                          Some(IF GreaterThan(shapiro, alpha) THEN "normal" ELSE "non-normal"))

\* AssumptionChecker.check_equal_variance, given what stats.levene does
check_equal_variance(group1, group2, alpha, levene) ==
    IF levene = Raises
    THEN AssumptionResult("levene", FALSE, None, None, Some("Test failed"))
    ELSE AssumptionResult("levene", GreaterThan(levene, alpha), Some(levene),
                          Some("statistic"),
                          Some(IF GreaterThan(levene, alpha) THEN "equal" ELSE "unequal"))

\* what stats.shapiro does on a group of numbers of the workflow: a p-value
\* at or above alpha (it is not called on fewer than 3 observations)
ShapiroOutcomes(group) == IF Len(group) < 3 THEN {NaN} ELSE {Alpha, Alpha + 1}
\* what stats.levene does: no p-value (NaN, or an exception) for an empty
\* sample, for two observations in all and when neither sample varies
Constant(group) == Cardinality({group[i] : i \in DOMAIN group}) <= 1
LeveneOutcomes(group1, group2) ==
    IF \/ group1 = << >> \/ group2 = << >>
       \/ Len(group1) + Len(group2) <= 2
       \/ (Constant(group1) /\ Constant(group2))
    THEN {NaN, Raises} ELSE {Alpha, Alpha + 1}

\* cohens_d = (np.mean(group1) - np.mean(group2)) / pooled_std: np.var with
\* ddof=1 of fewer than two values is nan, and pooled_std is 0 when both
\* groups are constant (the quotient is then inf, or nan for equal means);
\* numpy warns and raises nothing
CohensD(group1, group2) ==
    IF Len(group1) < 2 \/ Len(group2) < 2 THEN "nan"
    ELSE IF Constant(group1) /\ Constant(group2)
    THEN (IF group1[1] = group2[1] THEN "nan" ELSE "inf")
    ELSE "finite"

\* test_name = "Welch's t-test" if not equal_var else "Student's t-test"
TTestNameSwapped(equal_var) == IF equal_var THEN "Welch's t-test" ELSE "Student's t-test"
TTestName(equal_var) == IF equal_var THEN "Student's t-test" ELSE "Welch's t-test"

\* the dtypes the outcome column may have: numeric or object by its values;
\* a column of missing values only is either (NaN or None)
OutcomeIsNumeric(a) ==
    IF DropNa(Column(a.data, a.outcome_var)) = << >> THEN BOOLEAN
    ELSE {IsNumericDtype(Column(a.data, a.outcome_var))}

\* the error _execute_t_test_workflow raises, or None: df[group_var] of an
\* unknown column, the group count, df[...][outcome_var] of an unknown
\* column, np.isnan of an object array in execute_t_test
TTestWorkflowError(a, numeric) ==
    IF a.group_var = None \/ a.group_var[1] \notin Columns(a.data)
    THEN Some("KeyError: group_var")
    ELSE IF Len(Unique(Column(a.data, a.group_var[1]))) # 2
    THEN Some("T-test requires exactly 2 groups")
    ELSE IF a.outcome_var \notin Columns(a.data)
    THEN Some("KeyError: outcome_var")
    ELSE IF ~numeric
    THEN Some("TypeError: ufunc 'isnan' not supported for the input types")
    ELSE None

\* _execute_chi_square_workflow: chi2_contingency raises on a table without
\* data, i.e. when no row has both a group and an outcome
ChiSquareWorkflowError(a) ==
    IF a.group_var = None \/ a.group_var[1] \notin Columns(a.data)
    THEN Some("KeyError: group_var")
    ELSE IF a.outcome_var \notin Columns(a.data)
    THEN Some("KeyError: outcome_var")
    ELSE IF \A i \in DOMAIN a.data :
               a.data[i][a.group_var[1]] = None \/ a.data[i][a.outcome_var] = None
    THEN Some("No data; observed has size 0.")
    ELSE None

\* pd.crosstab(df[row_var], df[col_var]): the labels of the rows that have
\* both cells, and the count of each pair of labels
Crosstab(df, row_var, col_var) ==
    LET both == {i \in DOMAIN df : df[i][row_var] # None /\ df[i][col_var] # None}
    IN  [index   |-> {df[i][row_var] : i \in both},
         columns |-> {df[i][col_var] : i \in both},
         row_totals |-> [r \in {df[i][row_var] : i \in both} |->
                            Cardinality({i \in both : df[i][row_var] = r})],
         col_totals |-> [c \in {df[i][col_var] : i \in both} |->
                            Cardinality({i \in both : df[i][col_var] = c})],
         total   |-> Cardinality(both)]

\* np.min(expected) of chi2_contingency, as the fraction <<numerator,
\* denominator>>: the expected count of a cell is row total * column total
\* / total
MinExpected(table) ==
    LET products == {table.row_totals[r] * table.col_totals[c] :
                        r \in table.index, c \in table.columns}
    IN  <<CHOOSE x \in products : \A y \in products : x <= y, table.total>>
\* min_expected >= 5
AtLeastFive(min_expected) == min_expected[1] >= 5 * min_expected[2]

\* cramers_v = np.sqrt(chi2_stat / (n * (min(contingency_table.shape) - 1))):
\* a table with one row or one column has chi2_stat 0 and the divisor 0
CramersV(table) ==
    IF Cardinality(table.index) = 1 \/ Cardinality(table.columns) = 1
    THEN "nan" ELSE "finite"

\* _execute_chi_square_workflow when nothing raises
chi_square_workflow_result(a) ==
    LET contingency_table == Crosstab(a.data, a.group_var[1], a.outcome_var)
        min_expected == MinExpected(contingency_table)
    IN  [test_name   |-> "Chi-square test of independence",
         effect_size |-> [cramers_v |-> CramersV(contingency_table)],
         assumptions |-> [min_expected_frequency |->
                             [value |-> min_expected, passed |-> AtLeastFive(min_expected)]]]

\* StatisticalAnalysisService._perform_chi_square: the error it raises.
\* chi2_contingency returns expected as a numpy array, which has no
\* attribute values, so building the result raises after the test ran
PerformChiSquareError(a) ==
    IF ChiSquareWorkflowError(a) # None THEN ChiSquareWorkflowError(a)
    ELSE Some("AttributeError: 'numpy.ndarray' object has no attribute 'values'")

\* the TestType a StatisticalResult belongs to, by its test_name
TestKindOf(test_name) ==
    IF test_name \in {"Student's t-test", "Welch's t-test"} THEN T_TEST
    ELSE IF test_name = "Chi-square test of independence" THEN CHI_SQUARE
    ELSE "other"

(***************************************************************************)
(* EngineOrchestrator.run_analysis, one action per stage.  A stage that    *)
(* raises ends the call in the except clause.                              *)
(***************************************************************************)
RunArguments ==
    [data        : Datasets,
     outcome_var : {"outcome", "nonexistent_column"},
     group_var   : {None, Some("group"), Some("nonexistent_group")},
     time_var    : {None},
     event_var   : {None}]
    \cup
    [data        : Datasets,
     outcome_var : {"outcome"},
     group_var   : {Some("group")},
     time_var    : {Some("time")},
     event_var   : {Some("event")}]

InitEngine ==
    /\ pc = "start"
    /\ inp \in RunArguments
    /\ profile = None
    /\ recommendation = None
    /\ api_recommendation = None
    /\ result = None
    /\ raised = None
    /\ outcome = None
    /\ event_column = << >>
    /\ converted = None
    /\ lifelines_calls = << >>

\* except Exception as e: return {'error': str(e), 'status': 'failed'}
ExceptHandlerReraise(e) == [status |-> "raised", error |-> e]
ExceptHandler(e) == [status |-> "failed", error |-> e]

Raise(e) ==
    /\ raised' = Some(e)
    /\ outcome' = Some(ExceptHandler(e))
    /\ pc' = "done"

\* Step 1: profile = DataProfiler.profile_data(...)
Profile ==
    /\ pc = "start"
    /\ IF ProfileRaises(inp)
       THEN Raise("KeyError: outcome_var") /\ UNCHANGED profile
       ELSE /\ profile' = Some(profile_data(inp))
            /\ pc' = "profiled"
            /\ UNCHANGED <<raised, outcome>>
    /\ UNCHANGED <<recommendation, api_recommendation, inp, result,
                   event_column, converted, lifelines_calls>>

\* Step 2: recommendation = self.brain.recommend_test(profile)
Recommend ==
    /\ pc = "profiled"
    /\ recommendation' = Some(recommend_test(profile[1]))
    /\ pc' = "recommended"
    /\ UNCHANGED <<profile, api_recommendation, inp, result, raised, outcome,
                   event_column, converted, lifelines_calls>>

\* self._execute_t_test_workflow(df, outcome_var, group_var)
ExecuteTTestWorkflow ==
    \E numeric \in OutcomeIsNumeric(inp) :
    IF TTestWorkflowError(inp, numeric) # None
    THEN Raise(TTestWorkflowError(inp, numeric)[1]) /\ UNCHANGED result
    ELSE LET groups == Unique(Column(inp.data, inp.group_var[1]))
             group1_data == GroupData(inp.data, inp.outcome_var, inp.group_var[1], groups[1])
             group2_data == GroupData(inp.data, inp.outcome_var, inp.group_var[1], groups[2])
         IN  \E shapiro1 \in ShapiroOutcomes(group1_data) :
             \E shapiro2 \in ShapiroOutcomes(group2_data) :
             \E levene \in LeveneOutcomes(group1_data, group2_data) :
                LET norm1 == check_normality(group1_data, Alpha, shapiro1)
                    norm2 == check_normality(group2_data, Alpha, shapiro2)
                    equal_var == check_equal_variance(group1_data, group2_data, Alpha, levene)
                    use_equal_var == equal_var.passed
                IN  /\ result' = Some([test_name |-> TTestName(use_equal_var),
                                       n1 |-> Len(group1_data),
                                       n2 |-> Len(group2_data),
                                       effect_size |->
                                           [cohens_d |-> CohensD(group1_data, group2_data)],
                                       assumptions |-> [normality_group1 |-> norm1,
                                                        normality_group2 |-> norm2,
                                                        equal_variance   |-> equal_var]])
                    /\ pc' = "executed"
                    /\ UNCHANGED <<raised, outcome>>

\* self._execute_chi_square_workflow(df, outcome_var, group_var)
ExecuteChiSquareWorkflow ==
    IF ChiSquareWorkflowError(inp) # None
    THEN Raise(ChiSquareWorkflowError(inp)[1]) /\ UNCHANGED result
    ELSE /\ result' = Some(chi_square_workflow_result(inp))
         /\ pc' = "executed"
         /\ UNCHANGED <<raised, outcome>>

\* Step 4: the dispatch on recommendation['primary']
Dispatch(primary) ==
    IF primary = T_TEST THEN "t_test_workflow"
    ELSE IF primary = CHI_SQUARE THEN "chi_square_workflow"
    ELSE "t_test_workflow"

Execute ==
    /\ pc = "recommended"
    /\ IF Dispatch(recommendation[1].primary) = "chi_square_workflow"
       THEN ExecuteChiSquareWorkflow
       ELSE ExecuteTTestWorkflow
    /\ UNCHANGED <<profile, recommendation, api_recommendation, inp,
                   event_column, converted, lifelines_calls>>

\* getattr(result, 'assumptions', {}); << >> is the empty dict
AssumptionsCheckedDropped(res) == << >>
AssumptionsChecked(res) ==
    IF "assumptions" \in DOMAIN res THEN res.assumptions ELSE << >>

\* return {'data_profile': ..., ..., 'status': 'completed'}
Package ==
    /\ pc = "executed"
    /\ outcome' = Some([data_profile   |-> profile[1],
                        recommendation |-> recommendation[1],
                        assumptions_checked |-> AssumptionsChecked(result[1]),
                        final_result   |-> result[1],
                        status         |-> "completed"])
    /\ pc' = "done"
    /\ UNCHANGED <<profile, recommendation, api_recommendation, inp, result,
                   raised, event_column, converted, lifelines_calls>>

NextEngine == Profile \/ Recommend \/ Execute \/ Package

SpecEngine == InitEngine /\ [][NextEngine]_vars

(***************************************************************************)
(* Python strings and scalars, as the event normalizer reads them.         *)
(***************************************************************************)
UpperCase == <<"A", "B", "C", "D", "E", "F", "G", "H", "I", "J", "K", "L", "M", "N", "O", "P", "Q", "R", "S", "T", "U", "V", "W", "X", "Y", "Z">>
LowerCase == <<"a", "b", "c", "d", "e", "f", "g", "h", "i", "j", "k", "l", "m", "n", "o", "p", "q", "r", "s", "t", "u", "v", "w", "x", "y", "z">>
Digits == <<"0", "1", "2", "3", "4", "5", "6", "7", "8", "9">>

\* str.lower(), one character
LowerChar(c) ==
    IF \E i \in DOMAIN UpperCase : UpperCase[i] = c
    THEN LowerCase[CHOOSE i \in DOMAIN UpperCase : UpperCase[i] = c]
    ELSE c
\* str.lower()
Lower(s) == [i \in DOMAIN s |-> LowerChar(s[i])]
\* str.strip()
RECURSIVE LStrip(_)
LStrip(s) == IF s # << >> /\ s[1] = " " THEN LStrip(Tail(s)) ELSE s
RECURSIVE RStrip(_)
RStrip(s) == IF s # << >> /\ s[Len(s)] = " " THEN RStrip(SubSeq(s, 1, Len(s) - 1)) ELSE s
Strip(s) == RStrip(LStrip(s))
\* str.startswith(prefix)
StartsWith(s, prefix) ==
    Len(s) >= Len(prefix) /\ SubSeq(s, 1, Len(prefix)) = prefix
\* sub in s
Contains(s, sub) ==
    \E i \in 1..(Len(s) - Len(sub) + 1) : SubSeq(s, i, i + Len(sub) - 1) = sub

\* Python scalars: an int, a float (whole numbers only), a bool or a str
PyInt(n) == [kind |-> "int", v |-> n]
PyFloat(n) == [kind |-> "float", v |-> n]
PyBool(b) == [kind |-> "bool", v |-> b]
PyText(s) == [kind |-> "str", v |-> s]

IsNumber(x) == x.kind \in {"int", "float", "bool"}
\* the number a numeric scalar compares as (True == 1, False == 0)
NumVal(x) == IF x.kind = "bool" THEN (IF x.v THEN 1 ELSE 0) ELSE x.v
\* a == b (and equal hashes): how set(), unique() and dict lookups tell
\* values apart
PyEq(a, b) ==
    IF IsNumber(a) /\ IsNumber(b) THEN NumVal(a) = NumVal(b)
    ELSE IF a.kind = "str" /\ b.kind = "str" THEN a.v = b.v
    ELSE FALSE
\* str(val)
PyStr(x) ==
    IF x.kind = "str" THEN x.v
    ELSE IF x.kind = "bool" THEN (IF x.v THEN <<"T", "r", "u", "e">> ELSE <<"F", "a", "l", "s", "e">>)
    ELSE IF x.kind = "int" THEN <<Digits[x.v + 1]>>
    ELSE <<Digits[x.v + 1], ".", "0">>

\* the number a str parses to under pd.to_numeric, or None: one digit,
\* optionally followed by ".0"
ParseNumber(s) ==
    IF Len(s) \in {1, 3}
       /\ (\E d \in DOMAIN Digits : Digits[d] = s[1])
       /\ (Len(s) = 3 => (s[2] = "." /\ s[3] = "0"))
    THEN Some((CHOOSE d \in DOMAIN Digits : Digits[d] = s[1]) - 1)
    ELSE None

(***************************************************************************)
(* PublicationVizEngine._detect_and_convert_event_variable.  A series is a *)
(* sequence of cells; the value returned is the converted series, or the   *)
(* exception the call raised.                                              *)
(***************************************************************************)
\* set(event_series.dropna().unique()): one representative (the first) of
\* each class of equal values
RECURSIVE UniqueValuesFrom(_, _)
UniqueValuesFrom(series, seen) ==
    IF series = << >> THEN seen
    ELSE IF series[1] = None \/ (\E u \in seen : PyEq(u, series[1][1]))
    THEN UniqueValuesFrom(Tail(series), seen)
    ELSE UniqueValuesFrom(Tail(series), seen \cup {series[1][1]})
UniqueValues(series) == UniqueValuesFrom(series, {})

\* {str(v).lower().strip() for v in unique_values}
StrValues(unique_values) == {Strip(Lower(PyStr(v))) : v \in unique_values}

\* series.fillna(0)
FillNa(series) == [i \in DOMAIN series |-> IF series[i] = None THEN Some(0) ELSE series[i]]

Converted(pattern, values) == [ok |-> TRUE, pattern |-> pattern, values |-> values]
ConversionRaises(pattern) ==
    [ok |-> FALSE, pattern |-> pattern,
     error |-> "Cannot convert non-finite values (NA or inf) to integer"]

\* series.astype(int), of a series of numbers: raises on a missing value
AsTypeInt(pattern, series) ==
    IF \E i \in DOMAIN series : series[i] = None
    THEN ConversionRaises(pattern)
    ELSE Converted(pattern, [i \in DOMAIN series |-> series[i][1]])

\* event_series.astype(int), of the raw series of Pattern 1 and 2
RawAsTypeInt(pattern, series) ==
    AsTypeInt(pattern, [i \in DOMAIN series |->
                          IF series[i] = None THEN None ELSE Some(NumVal(series[i][1]))])

\* event_series.map(event_mapping): a value without a key becomes missing
MapValues(series, event_mapping) ==
    [i \in DOMAIN series |->
        IF series[i] # None /\ (\E u \in DOMAIN event_mapping : PyEq(u, series[i][1]))
        THEN Some(event_mapping[CHOOSE u \in DOMAIN event_mapping : PyEq(u, series[i][1])])
        ELSE None]

\* unique_values.issubset({0, 1, 0.0, 1.0})
IsBinaryNumeric(unique_values) ==
    \A v \in unique_values : IsNumber(v) /\ NumVal(v) \in {0, 1}
\* unique_values.issubset({True, False})
IsBoolean(unique_values) ==
    \A v \in unique_values : IsNumber(v) /\ NumVal(v) \in {0, 1}

event_patterns_without_yes ==
    {<<"t", "r", "u", "e">>,
     <<"d", "e", "a", "d">>,
     <<"d", "e", "a", "t", "h">>,
     <<"d", "e", "c", "e", "a", "s", "e", "d">>,
     <<"e", "v", "e", "n", "t">>,
     <<"o", "c", "c", "u", "r", "r", "e", "d">>,
     <<"p", "o", "s", "i", "t", "i", "v", "e">>,
     <<"1">>}
event_patterns ==
    {<<"y", "e", "s">>,
     <<"t", "r", "u", "e">>,
     <<"d", "e", "a", "d">>,
     <<"d", "e", "a", "t", "h">>,
     <<"d", "e", "c", "e", "a", "s", "e", "d">>,
     <<"e", "v", "e", "n", "t">>,
     <<"o", "c", "c", "u", "r", "r", "e", "d">>,
     <<"p", "o", "s", "i", "t", "i", "v", "e">>,
     <<"1">>}
censored_patterns ==
    {<<"n", "o">>,
     <<"f", "a", "l", "s", "e">>,
     <<"a", "l", "i", "v", "e">>,
     <<"l", "i", "v", "i", "n", "g">>,
     <<"c", "e", "n", "s", "o", "r", "e", "d">>,
     <<"n", "o", " ", "e", "v", "e", "n", "t">>,
     <<"n", "e", "g", "a", "t", "i", "v", "e">>,
     <<"0">>}

\* colon_separated = any(':' in str(val) for val in unique_values)
ColonSeparated(unique_values) ==
    \E v \in unique_values : Contains(PyStr(v), <<":">>)

\* the code the colon branch gives one value
ColonCode(val) ==
    LET str_val == Strip(Lower(PyStr(val)))
    IN  IF \/ StartsWith(str_val, <<"1", ":">>)
           \/ Contains(str_val, <<"d", "e", "c", "e", "a", "s", "e", "d">>)
           \/ Contains(str_val, <<"d", "e", "a", "d">>)
        THEN 1
        ELSE IF \/ StartsWith(str_val, <<"0", ":">>)
                \/ Contains(str_val, <<"l", "i", "v", "i", "n", "g">>)
                \/ Contains(str_val, <<"a", "l", "i", "v", "e">>)
        THEN 0
        ELSE 0

\* the code the vocabulary branch gives one value
VocabularyCode(val) ==
    LET str_val == Strip(Lower(PyStr(val)))
    IN  IF str_val \in event_patterns THEN 1
        ELSE IF str_val \in censored_patterns THEN 0
        ELSE 0

\* pd.to_numeric(event_series, errors='coerce')
ToNumeric(series) ==
    [i \in DOMAIN series |->
        IF series[i] = None THEN None
        ELSE IF IsNumber(series[i][1]) THEN Some(NumVal(series[i][1]))
        ELSE ParseNumber(series[i][1].v)]

\* Pattern 4: the numeric conversion; None when it returns nothing and the
\* code falls through to Pattern 5
NumericConversionUnmapped(event_series) ==
    LET numeric_series == ToNumeric(event_series)
        numeric_unique == {numeric_series[i][1] :
                             i \in {j \in DOMAIN numeric_series : numeric_series[j] # None}}
    IN  IF numeric_unique \subseteq {0, 1}
        THEN Some(AsTypeInt("numeric", FillNa(numeric_series)))
        ELSE IF Cardinality(numeric_unique) = 2
        THEN Some(AsTypeInt("numeric", FillNa(numeric_series)))
        ELSE None
NumericConversion(event_series) ==
    LET numeric_series == ToNumeric(event_series)
        numeric_unique == {numeric_series[i][1] :
                             i \in {j \in DOMAIN numeric_series : numeric_series[j] # None}}
        smaller == CHOOSE x \in numeric_unique : \A y \in numeric_unique : x <= y
    IN  IF numeric_unique \subseteq {0, 1}
        THEN Some(AsTypeInt("numeric", FillNa(numeric_series)))
        ELSE IF Cardinality(numeric_unique) = 2
        THEN Some(AsTypeInt("numeric_pair",
                 FillNa([i \in DOMAIN numeric_series |->
                           IF numeric_series[i] = None THEN None
                           ELSE IF numeric_series[i][1] = smaller THEN Some(0)
                           ELSE Some(1)])))
        ELSE None

\* the lines the normalizer prints: "WARNING: Unknown colon-separated event
\* value" for each value of a colon-separated column that takes the else
\* branch, "WARNING: Unknown event value" in the vocabulary branch, and
\* "ERROR: Cannot interpret event variable" of the fallback
NormalizerPrints(event_series) ==
    LET unique_values == UniqueValues(event_series)
        str_values == StrValues(unique_values)
        str_val(val) == Strip(Lower(PyStr(val)))
    IN  IF IsBinaryNumeric(unique_values) \/ IsBoolean(unique_values)
        THEN {}
        ELSE IF ColonSeparated(unique_values)
        THEN {<<"WARNING: Unknown colon-separated event value", val>> :
                 val \in {v \in unique_values :
                             /\ ~StartsWith(str_val(v), <<"1", ":">>)
                             /\ ~Contains(str_val(v), <<"d", "e", "c", "e", "a", "s", "e", "d">>)
                             /\ ~Contains(str_val(v), <<"d", "e", "a", "d">>)
                             /\ ~StartsWith(str_val(v), <<"0", ":">>)
                             /\ ~Contains(str_val(v), <<"l", "i", "v", "i", "n", "g">>)
                             /\ ~Contains(str_val(v), <<"a", "l", "i", "v", "e">>)}}
        ELSE IF str_values \subseteq (event_patterns \cup censored_patterns)
        THEN {<<"WARNING: Unknown event value", val>> :
                 val \in {v \in unique_values :
                             str_val(v) \notin (event_patterns \cup censored_patterns)}}
        ELSE IF NumericConversion(event_series) # None
        THEN {}
        ELSE {<<"ERROR: Cannot interpret event variable", "Assuming all observations are censored (0)">>}

detect_and_convert_event_variable(event_series) ==
    LET unique_values == UniqueValues(event_series)
        str_values == StrValues(unique_values)
    IN  IF IsBinaryNumeric(unique_values)
        THEN RawAsTypeInt("binary", event_series)
        ELSE IF IsBoolean(unique_values)
        THEN RawAsTypeInt("boolean", event_series)
        ELSE IF ColonSeparated(unique_values)
        THEN AsTypeInt("colon",
                       FillNa(MapValues(event_series,
                                        [val \in unique_values |-> ColonCode(val)])))
        ELSE IF str_values \subseteq (event_patterns \cup censored_patterns)
        THEN AsTypeInt("vocabulary",
                       FillNa(MapValues(event_series,
                                        [val \in unique_values |-> VocabularyCode(val)])))
        ELSE IF NumericConversion(event_series) # None
        THEN NumericConversion(event_series)[1]
        ELSE Converted("fallback", [i \in DOMAIN event_series |-> 0])

(***************************************************************************)
(* The event normalizer as a pure function: Init draws an event column,    *)
(* the action converts it.                                                 *)
(***************************************************************************)
MaxLen == 3

YES == PyText(<<"Y", "e", "s">>)
NO == PyText(<<"N", "o">>)
DECEASED_1 == PyText(<<"1", ":", "D", "E", "C", "E", "A", "S", "E", "D">>)
LIVING_0 == PyText(<<"0", ":", "L", "I", "V", "I", "N", "G">>)
TUMOR_FREE_0 == PyText(<<"0", ":", "A", "L", "I", "V", "E", " ", "O", "R", " ", "D", "E", "A", "D", " ", "T", "U", "M", "O", "R", " ", "F", "R", "E", "E">>)
UNKNOWN_2 == PyText(<<"2", ":", "U", "n", "k", "n", "o", "w", "n">>)
MAYBE == PyText(<<"m", "a", "y", "b", "e">>)
DEAD_PADDED == PyText(<<" ", "D", "E", "A", "D", " ">>)

EventValues ==
    {PyInt(0), PyInt(1), PyInt(2), PyBool(TRUE), PyBool(FALSE),
     YES, NO, DECEASED_1, LIVING_0, TUMOR_FREE_0, UNKNOWN_2, MAYBE,
     DEAD_PADDED, PyText(<<"1">>), PyText(<<"2">>)}

EventCells == {None} \cup {Some(v) : v \in EventValues}

\* the dtype of a pd.Series: a column of ints that holds a float or a
\* missing value is a float column (1 is stored as 1.0); any other mix keeps
\* its Python objects
AsSeries(cells) ==
    LET present == {cells[i][1] : i \in {j \in DOMAIN cells : cells[j] # None}}
        floats == /\ present # {}
                  /\ \A v \in present : v.kind \in {"int", "float"}
                  /\ \/ \E v \in present : v.kind = "float"
                     \/ \E i \in DOMAIN cells : cells[i] = None
    IN  [i \in DOMAIN cells |->
            IF cells[i] # None /\ floats THEN Some(PyFloat(cells[i][1].v)) ELSE cells[i]]

InitEvent ==
    /\ pc = "event"
    /\ \E n \in 0..MaxLen : \E cells \in [1..n -> EventCells] :
            event_column = AsSeries(cells)
    /\ converted = None
    /\ lifelines_calls = << >>
    /\ profile = None
    /\ recommendation = None
    /\ api_recommendation = None
    /\ inp = Idle
    /\ result = None
    /\ raised = None
    /\ outcome = None

DetectAndConvert ==
    /\ pc = "event"
    /\ converted = None
    /\ converted' = Some(detect_and_convert_event_variable(event_column))
    /\ UNCHANGED <<pc, profile, recommendation, api_recommendation, inp, result,
                   raised, outcome, event_column, lifelines_calls>>

NextEvent == DetectAndConvert

SpecEvent == InitEvent /\ [][NextEvent]_vars

(***************************************************************************)
(* PublicationVizEngine._validate_survival_data as a pure function: Init   *)
(* draws a time series and an event series of the same length, the action  *)
(* validates them.                                                         *)
(***************************************************************************)
MaxObs == 22
MaxShortObs == 3

RECURSIVE Sum(_)
Sum(series) == IF series = << >> THEN 0 ELSE series[1] + Sum(Tail(series))
\* series.min(), series.max() of a series that is not empty
SeriesMin(series) == CHOOSE x \in {series[i] : i \in DOMAIN series} :
                         \A i \in DOMAIN series : x <= series[i]
SeriesMax(series) == CHOOSE x \in {series[i] : i \in DOMAIN series} :
                         \A i \in DOMAIN series : x >= series[i]

\* the check of the event rate.  event_rate is events / total_obs as a
\* float; it equals 0 or 1 exactly when events is 0 or total_obs, and for
\* counts this small it compares with 0.95 and 0.05 as the fraction does
EventRateCheckStrict(events, total_obs) ==
    IF total_obs = 0 \/ events = 0
    THEN [warnings |-> <<"WARNING: No events detected">>, valid |-> FALSE]
    ELSE IF events = total_obs
    THEN [warnings |-> <<"CRITICAL: 100% event rate">>, valid |-> FALSE]
    ELSE IF events * 100 > 95 * total_obs
    THEN [warnings |-> <<"WARNING: Very high event rate">>, valid |-> FALSE]
    ELSE IF events * 100 < 5 * total_obs
    THEN [warnings |-> <<"WARNING: Very low event rate">>, valid |-> FALSE]
    ELSE [warnings |-> << >>, valid |-> TRUE]
EventRateCheck(events, total_obs) ==
    IF total_obs = 0 \/ events = 0
    THEN [warnings |-> <<"WARNING: No events detected">>, valid |-> FALSE]
    ELSE IF events = total_obs
    THEN [warnings |-> <<"CRITICAL: 100% event rate">>, valid |-> FALSE]
    ELSE IF events * 100 > 95 * total_obs
    THEN [warnings |-> <<"WARNING: Very high event rate">>, valid |-> TRUE]
    ELSE IF events * 100 < 5 * total_obs
    THEN [warnings |-> <<"WARNING: Very low event rate">>, valid |-> TRUE]
    ELSE [warnings |-> << >>, valid |-> TRUE]

\* time_data.min() < 0; False for an empty series (its min is NaN)
NegativeTime(time_data) == time_data # << >> /\ SeriesMin(time_data) < 0
\* time_data.max() == time_data.min(); False for an empty series
IdenticalTimes(time_data) ==
    time_data # << >> /\ SeriesMax(time_data) = SeriesMin(time_data)

validate_survival_data(time_data, event_data) ==
    LET total_obs == Len(time_data)
        events == Sum(event_data)
        rate == EventRateCheck(events, total_obs)
    IN  [total_observations |-> total_obs,
         events   |-> events,
         censored |-> total_obs - events,
         warnings |-> rate.warnings
                      \o (IF NegativeTime(time_data)
                          THEN <<"ERROR: Negative time values detected">> ELSE << >>)
                      \o (IF IdenticalTimes(time_data)
                          THEN <<"ERROR: All time values are identical">> ELSE << >>),
         valid    |-> rate.valid /\ ~NegativeTime(time_data) /\ ~IdenticalTimes(time_data)]

\* n observations: the first e are events, the times start at t0 and grow
\* by step
MakeSurvivalSeries(n, e, t0, step) ==
    [time_data  |-> [i \in 1..n |-> t0 + step * (i - 1)],
     event_data |-> [i \in 1..n |-> IF i <= e THEN 1 ELSE 0]]

SurvivalSeries ==
    {MakeSurvivalSeries(n, e, t0, step) :
        n \in 0..MaxObs, e \in 0..MaxObs, t0 \in {-1, 0, 1}, step \in {0, 1}}
    \cup
    UNION {[time_data : [1..n -> -1..2], event_data : [1..n -> {0, 1}]] :
              n \in 0..MaxShortObs}

InitValidate ==
    /\ pc = "validate"
    /\ inp \in SurvivalSeries
    /\ outcome = None
    /\ profile = None
    /\ recommendation = None
    /\ api_recommendation = None
    /\ result = None
    /\ raised = None
    /\ event_column = << >>
    /\ converted = None
    /\ lifelines_calls = << >>

ValidateSurvivalData ==
    /\ pc = "validate"
    /\ outcome = None
    /\ outcome' = Some(validate_survival_data(inp.time_data, inp.event_data))
    /\ UNCHANGED <<pc, profile, recommendation, api_recommendation, inp, result,
                   raised, event_column, converted, lifelines_calls>>

NextValidate == ValidateSurvivalData

SpecValidate == InitValidate /\ [][NextValidate]_vars

(***************************************************************************)
(* The three survival paths: PublicationVizEngine.create_kaplan_meier_plot,*)
(* StatisticalAnalysisService._perform_survival_analysis and the legacy    *)
(* perform_survival_analysis.  A data frame is a sequence of rows with the *)
(* cells time, event and group; a row that a frame keeps carries its index *)
(* label (labels count from 1 here).  lifelines and matplotlib are outside *)
(* the model: a fit or a test is the call with its arguments.              *)
(***************************************************************************)
MaxSurvRows == 3
MaxSurvGroups == 3

\* data[[...]].dropna(): the rows without a missing cell, under their labels
DropNaRows(df, cols) ==
    LET RECURSIVE Keep(_)
        Keep(i) ==
            IF i > Len(df) THEN << >>
            ELSE (IF \A c \in cols : df[i][c] # None
                  THEN <<[idx |-> i, row |-> df[i]]>> ELSE << >>) \o Keep(i + 1)
    IN  Keep(1)
\* reset_index(drop=True)
ResetIndex(rows) == [i \in DOMAIN rows |-> [idx |-> i, row |-> rows[i].row]]
\* series[mask]: the positions of the mask, in order
Masked(series, mask) ==
    LET RECURSIVE Pick(_)
        Pick(i) ==
            IF i > Len(series) THEN << >>
            ELSE (IF i \in mask THEN <<series[i]>> ELSE << >>) \o Pick(i + 1)
    IN  Pick(1)
\* ~time_data.isna()
ValidMask(time_data) == {i \in DOMAIN time_data : time_data[i] # None}

\* the text terms of the inline coding of the two servers
inline_event_terms ==
    {<<"1">>,
     <<"t", "r", "u", "e">>,
     <<"y", "e", "s">>,
     <<"d", "e", "a", "d">>,
     <<"d", "e", "a", "t", "h">>,
     <<"e", "v", "e", "n", "t">>,
     <<"d", "e", "c", "e", "a", "s", "e", "d">>}
InlineEventCode(val) ==
    IF Strip(Lower(PyStr(val))) \in inline_event_terms THEN 1 ELSE 0

\* "Convert event variable" of the two servers, of a series without a
\* missing value
inline_event_coding_any_number(event_data) ==
    LET unique_events == UniqueValues(event_data)
    IN  IF \A v \in unique_events : IsNumber(v)
        THEN [i \in DOMAIN event_data |-> NumVal(event_data[i][1])]
        ELSE LET mapped == FillNa(MapValues(event_data,
                               [val \in unique_events |-> InlineEventCode(val)]))
             IN  [i \in DOMAIN mapped |-> mapped[i][1]]
inline_event_coding(event_data) ==
    LET unique_events == UniqueValues(event_data)
    IN  IF IsBinaryNumeric(unique_events) \/ IsBoolean(unique_events)
        THEN [i \in DOMAIN event_data |-> NumVal(event_data[i][1])]
        ELSE LET mapped == FillNa(MapValues(event_data,
                               [val \in unique_events |-> InlineEventCode(val)]))
             IN  [i \in DOMAIN mapped |-> mapped[i][1]]

\* the series a path holds after "Remove invalid values": the times and the
\* event codes of the complete rows with a numeric time, the labels they
\* carry and the frame clean_df[valid_mask].reset_index(drop=True)
CleanSeries(clean, event_all) ==
    LET time_all == ToNumeric([i \in DOMAIN clean |-> clean[i].row.time])
        valid_mask == ValidMask(time_all)
        kept == Masked(time_all, valid_mask)
    IN  [time_data  |-> [k \in DOMAIN kept |-> kept[k][1]],
         event_data |-> Masked(event_all, valid_mask),
         labels     |-> Masked([i \in DOMAIN clean |-> clean[i].idx], valid_mask),
         group      |-> Masked([i \in DOMAIN clean |-> clean[i].row.group], valid_mask)]

\* the series of _perform_survival_analysis and of the legacy function
ServerSeries(a) ==
    LET clean_df == DropNaRows(a.data, {"time", "event", "group"})
    IN  CleanSeries(clean_df,
                    inline_event_coding([i \in DOMAIN clean_df |-> clean_df[i].row.event]))

\* the event column create_kaplan_meier_plot hands to the normalizer
PlotEventColumn(a) ==
    LET clean_data == DropNaRows(a.data, IF a.group_var = None
                                         THEN {"time", "event"}
                                         ELSE {"time", "event", "group"})
    IN  [i \in DOMAIN clean_data |-> clean_data[i].row.event]
\* the series of create_kaplan_meier_plot, when the normalizer returned
PlotSeries(a) ==
    LET clean_data == ResetIndex(DropNaRows(a.data, IF a.group_var = None
                                                    THEN {"time", "event"}
                                                    ELSE {"time", "event", "group"}))
    IN  CleanSeries(clean_data,
                    detect_and_convert_event_variable(PlotEventColumn(a)).values)

\* series[mask] with a boolean Series as mask raises IndexingError unless
\* every label of the series is a label of the mask; the mask is built on
\* the frame after reset_index, the series keep their labels
Aligned(labels) == labels = [k \in DOMAIN labels |-> k]

KMFit(durations, event_observed) ==
    [fn |-> "KaplanMeierFitter.fit",
     durations |-> durations, event_observed |-> event_observed]
LogRankTest(durations_A, durations_B, event_observed_A, event_observed_B) ==
    [fn |-> "logrank_test",
     durations |-> durations_A \o durations_B,
     event_observed |-> event_observed_A \o event_observed_B]

\* the loop "for group in groups" and the log-rank test of two groups
GroupMask(s, group) == {k \in DOMAIN s.group : s.group[k] = group}
GroupFits(s) ==
    LET groups == Unique(s.group)
    IN  [j \in DOMAIN groups |->
            KMFit(Masked(s.time_data, GroupMask(s, groups[j])),
                  Masked(s.event_data, GroupMask(s, groups[j])))]
GroupLogRank(s) ==
    LET groups == Unique(s.group)
        fits == GroupFits(s)
    IN  IF Len(groups) = 2
        THEN <<LogRankTest(fits[1].durations, fits[2].durations,
                           fits[1].event_observed, fits[2].event_observed)>>
        ELSE << >>

SurvivalRun(error, res, calls) == [raised |-> error, result |-> res, calls |-> calls]

IndexingError == "IndexingError: Unalignable boolean Series provided as indexer"

\* StatisticalResult(test_name="Kaplan-Meier Survival Analysis", ...): the
\* statistic and the p-value are the log-rank test's or the literals of the
\* else branch
SurvivalResult(s) ==
    [test_name |-> "Kaplan-Meier Survival Analysis",
     statistic |-> IF GroupLogRank(s) # << >>
                   THEN Some("logrank_result.test_statistic") ELSE Some("0.0"),
     p_value   |-> IF GroupLogRank(s) # << >>
                   THEN Some("logrank_result.p_value") ELSE Some("1.0"),
     sample_sizes |-> [j \in DOMAIN GroupFits(s) |-> Len(GroupFits(s)[j].event_observed)]]

\* StatisticalAnalysisService._perform_survival_analysis
perform_survival_analysis(a) ==
    IF a.group_var = None
    THEN SurvivalRun(Some("KeyError: None"), None, << >>)
    ELSE LET s == ServerSeries(a)
         IN  IF s.group # << >> /\ ~Aligned(s.labels)
             THEN SurvivalRun(Some(IndexingError), None, << >>)
             ELSE SurvivalRun(None, Some(SurvivalResult(s)), GroupFits(s) \o GroupLogRank(s))

\* the legacy perform_survival_analysis: the same, then the overall fit;
\* whether lifelines fits two empty arrays is left open
legacy_perform_survival_analysis(a, empty_fit_raises) ==
    IF a.group_var = None
    THEN SurvivalRun(Some("KeyError: None"), None, << >>)
    ELSE LET s == ServerSeries(a)
             calls == GroupFits(s) \o GroupLogRank(s) \o <<KMFit(s.time_data, s.event_data)>>
         IN  IF s.group # << >> /\ ~Aligned(s.labels)
             THEN SurvivalRun(Some(IndexingError), None, << >>)
             ELSE IF s.time_data = << >> /\ empty_fit_raises
             THEN SurvivalRun(Some("ValueError: empty durations"), None, calls)
             ELSE SurvivalRun(None, Some(SurvivalResult(s)), calls)

\* PublicationVizEngine.create_kaplan_meier_plot
create_kaplan_meier_plot(a) ==
    LET conv == detect_and_convert_event_variable(PlotEventColumn(a))
        s == PlotSeries(a)
        validation == validate_survival_data(s.time_data, s.event_data)
    IN  IF ~conv.ok
        THEN SurvivalRun(Some(conv.error), None, << >>)
        ELSE IF ~validation.valid
        THEN SurvivalRun(Some("Survival data validation failed"), None, << >>)
        ELSE IF Len(s.time_data) = 0 \/ Len(s.event_data) = 0
        THEN SurvivalRun(Some("No valid survival data found after cleaning"), None, << >>)
        ELSE IF NegativeTime(s.time_data)
        THEN SurvivalRun(Some("Time values cannot be negative"), None, << >>)
        ELSE IF \E k \in DOMAIN s.event_data : s.event_data[k] \notin {0, 1}
        THEN SurvivalRun(Some("Event values must be 0 (censored) or 1 (event occurred)"),
                         None, << >>)
        ELSE IF a.group_var # None
        THEN IF ~Aligned(s.labels)
             THEN SurvivalRun(Some(IndexingError), None, << >>)
             ELSE SurvivalRun(None,
                              Some([figure |-> "base64",
                                    annotation |-> IF GroupLogRank(s) # << >>
                                                   THEN Some("logrank_result.p_value")
                                                   ELSE None]),
                              GroupFits(s) \o GroupLogRank(s))
        ELSE SurvivalRun(None,
                         Some([figure |-> "base64", annotation |-> None]),
                         <<KMFit(s.time_data, s.event_data)>>)

\* what create_kaplan_meier_plot prints on its way: the lines of the
\* normalizer and, in "for warning in validation['warnings']: print(warning)",
\* the warnings of the validation
PlotPrints(a) ==
    NormalizerPrints(PlotEventColumn(a))
    \cup (LET w == validate_survival_data(PlotSeries(a).time_data,
                                          PlotSeries(a).event_data).warnings
          IN  IF detect_and_convert_event_variable(PlotEventColumn(a)).ok
              THEN {<<w[i], "validation">> : i \in DOMAIN w} ELSE {})

\* the cells of a time column and of an event column
NOT_A_TIME == PyText(<<"N", "/", "A">>)
SurvEventValues == {PyInt(0), PyInt(1), PyInt(2), YES, NO, MAYBE, DECEASED_1, UNKNOWN_2}
SurvEventCells == {None} \cup {Some(v) : v \in SurvEventValues}
FewEventCells == {Some(PyInt(0)), Some(PyInt(1)), Some(MAYBE)}

\* the times 1, 2, ..., n
BaseTimes(n) == [i \in 1..n |-> Some(PyInt(i))]
\* the same with one cell missing, negative, not a number or a repeat of
\* the first time; and n identical times
TimeColumns(n) ==
    {BaseTimes(n), [i \in 1..n |-> Some(PyInt(1))]}
    \cup {[BaseTimes(n) EXCEPT ![p] = c] :
             p \in 1..n, c \in {None, Some(PyInt(-1)), Some(NOT_A_TIME), Some(PyInt(1))}}

\* ng = 0 stands for a call without group_var
MakeSurvivalArguments(times, events, ng) ==
    [data |-> [i \in DOMAIN times |->
                  [time  |-> times[i],
                   event |-> AsSeries(events)[i],
                   group |-> Some(Str(IF ng = 0 THEN 1 ELSE ((i - 1) % ng) + 1))]],
     group_var |-> IF ng = 0 THEN None ELSE Some("group")]

InitSurvival ==
    /\ pc = "survival"
    /\ \E n \in 0..MaxSurvRows : \E ng \in 0..MaxSurvGroups :
          \/ \E events \in [1..n -> SurvEventCells] :
                inp = MakeSurvivalArguments(BaseTimes(n), events, ng)
          \/ \E times \in TimeColumns(n) : \E events \in [1..n -> FewEventCells] :
                inp = MakeSurvivalArguments(times, events, ng)
    /\ profile = None
    /\ recommendation = None
    /\ api_recommendation = None
    /\ result = None
    /\ raised = None
    /\ outcome = None
    /\ event_column = << >>
    /\ converted = None
    /\ lifelines_calls = << >>

Ran(run, path) ==
    /\ raised' = run.raised
    /\ result' = run.result
    /\ lifelines_calls' = run.calls
    /\ pc' = path
    /\ UNCHANGED <<profile, recommendation, api_recommendation, inp, outcome>>

CreateKaplanMeierPlot ==
    /\ pc = "survival"
    /\ event_column' = PlotEventColumn(inp)
    /\ converted' = Some(detect_and_convert_event_variable(PlotEventColumn(inp)))
    /\ Ran(create_kaplan_meier_plot(inp), "plot")

PerformSurvivalAnalysis ==
    /\ pc = "survival"
    /\ Ran(perform_survival_analysis(inp), "service")
    /\ UNCHANGED <<event_column, converted>>

LegacyPerformSurvivalAnalysis ==
    /\ pc = "survival"
    /\ \E empty_fit_raises \in BOOLEAN :
          Ran(legacy_perform_survival_analysis(inp, empty_fit_raises), "legacy")
    /\ UNCHANGED <<event_column, converted>>

NextSurvival ==
    CreateKaplanMeierPlot \/ PerformSurvivalAnalysis \/ LegacyPerformSurvivalAnalysis

SpecSurvival == InitSurvival /\ [][NextSurvival]_vars

(***************************************************************************)
(* AssumptionChecker.check_normality as a pure function: Init draws a      *)
(* sample, an alpha and what stats.shapiro would do, the action runs the   *)
(* check.                                                                  *)
(***************************************************************************)
MaxNormalityObs == 6
MaxPValue == 101

Alphas == {10, Alpha, 100}
PValues == 0..MaxPValue

InitAssumption ==
    /\ pc = "assumption"
    /\ \E n \in 0..MaxNormalityObs : \E alpha \in Alphas :
       \E shapiro \in PValues \cup {NaN, Raises} :
            inp = [data |-> [i \in 1..n |-> Num(i)], alpha |-> alpha, shapiro |-> shapiro]
    /\ outcome = None
    /\ profile = None
    /\ recommendation = None
    /\ api_recommendation = None
    /\ result = None
    /\ raised = None
    /\ event_column = << >>
    /\ converted = None
    /\ lifelines_calls = << >>

CheckNormality ==
    /\ pc = "assumption"
    /\ outcome = None
    /\ outcome' = Some(check_normality(inp.data, inp.alpha, inp.shapiro))
    /\ UNCHANGED <<pc, profile, recommendation, api_recommendation, inp, result,
                   raised, event_column, converted, lifelines_calls>>

NextAssumption == CheckNormality

SpecAssumption == InitAssumption /\ [][NextAssumption]_vars

(***************************************************************************)
(* DataProfiler._determine_variable_type as a pure function: Init draws a  *)
(* column, the action classifies it.                                       *)
(***************************************************************************)
MaxTypeRows == 202
MaxTypeDistinct == 11
MaxTypeMissing == 2

\* a measurement that is not a whole number (j + 0.5), a float64 cell
Real(j) == [kind |-> "num", v |-> j, half |-> TRUE]

TypeRowCounts == (0..3) \cup {24, 50} \cup (199..MaxTypeRows)
Dtypes == {"int64", "float64", "object"}

\* a column of n cells cycling through k values of one dtype, its last nan
\* cells missing
MakeSeries(n, k, dtype, nan) ==
    [i \in 1..n |->
        IF i > n - nan THEN None
        ELSE Some(IF dtype = "int64" THEN Num((i - 1) % k)
                  ELSE IF dtype = "float64" THEN Real((i - 1) % k)
                  ELSE Str((i - 1) % k))]

InitType ==
    /\ pc = "type"
    /\ \E n \in TypeRowCounts : \E k \in 1..MaxTypeDistinct :
       \E dtype \in Dtypes : \E nan \in 0..MaxTypeMissing :
            inp = MakeSeries(n, k, dtype, nan)
    /\ outcome = None
    /\ profile = None
    /\ recommendation = None
    /\ api_recommendation = None
    /\ result = None
    /\ raised = None
    /\ event_column = << >>
    /\ converted = None
    /\ lifelines_calls = << >>

DetermineVariableType ==
    /\ pc = "type"
    /\ outcome = None
    /\ outcome' = Some(determine_variable_type(inp))
    /\ UNCHANGED <<pc, profile, recommendation, api_recommendation, inp, result,
                   raised, event_column, converted, lifelines_calls>>

NextType == DetermineVariableType

SpecType == InitType /\ [][NextType]_vars

(***************************************************************************)
(* The two chi-square paths as functions of the rows: Init draws the rows, *)
(* an action runs EngineOrchestrator._execute_chi_square_workflow or       *)
(* StatisticalAnalysisService._perform_chi_square on them.                 *)
(***************************************************************************)
InitChiSquare ==
    /\ pc = "chi_square"
    /\ \E data \in Datasets :
          inp = [data |-> data, outcome_var |-> "outcome", group_var |-> Some("group")]
    /\ profile = None
    /\ recommendation = None
    /\ api_recommendation = None
    /\ result = None
    /\ raised = None
    /\ outcome = None
    /\ event_column = << >>
    /\ converted = None
    /\ lifelines_calls = << >>

ChiSquareWorkflow ==
    /\ pc = "chi_square"
    /\ IF ChiSquareWorkflowError(inp) # None
       THEN raised' = ChiSquareWorkflowError(inp) /\ UNCHANGED result
       ELSE result' = Some(chi_square_workflow_result(inp)) /\ UNCHANGED raised
    /\ pc' = "workflow"
    /\ UNCHANGED <<profile, recommendation, api_recommendation, inp, outcome,
                   event_column, converted, lifelines_calls>>

PerformChiSquare ==
    /\ pc = "chi_square"
    /\ raised' = PerformChiSquareError(inp)
    /\ pc' = "service"
    /\ UNCHANGED <<profile, recommendation, api_recommendation, inp, result, outcome,
                   event_column, converted, lifelines_calls>>

NextChiSquare == ChiSquareWorkflow \/ PerformChiSquare

SpecChiSquare == InitChiSquare /\ [][NextChiSquare]_vars

(***************************************************************************)
(* Claims about the recommenders (checked under SpecBrain).                *)
(***************************************************************************)
Recommended == recommendation # None
Reco == recommendation[1]

\* the tests named by a recommendation, primary and alternatives
TestsOf(r) == {r.primary} \cup {r.alternatives[i].test : i \in DOMAIN r.alternatives}
AltTests(r) == {r.alternatives[i].test : i \in DOMAIN r.alternatives}
AltConfidence(r, t) ==
    {r.alternatives[i].confidence : i \in {j \in DOMAIN r.alternatives : r.alternatives[j].test = t}}

TwoGroupContinuous(p) == p.outcome_type = "continuous" /\ p.n_groups = Some(2)
ManyGroupContinuous(p) ==
    p.outcome_type = "continuous" /\ p.n_groups # None /\ p.n_groups[1] > 2
GroupedCategorical(p) ==
    p.outcome_type = "categorical" /\ p.n_groups # None /\ p.n_groups[1] >= 2

\* C3: for a continuous outcome with two groups the primary is the t-test or
\* Mann-Whitney U; the t-test is a candidate only when sample_size >= 30, and
\* then it is the primary with Mann-Whitney (0.8) the alternative; below 30
\* the primary is Mann-Whitney.
C3_TwoGroupContinuous ==
    (Recommended /\ TwoGroupContinuous(profile)) =>
        /\ Reco.primary \in {T_TEST, MANN_WHITNEY}
        /\ (T_TEST \in TestsOf(Reco)) => profile.sample_size >= 30
        /\ profile.sample_size >= 30 =>
              /\ Reco.primary = T_TEST
              /\ AltTests(Reco) = {MANN_WHITNEY}
              /\ AltConfidence(Reco, MANN_WHITNEY) = {80}
        /\ profile.sample_size < 30 =>
              /\ Reco.primary = MANN_WHITNEY
              /\ Reco.alternatives = << >>

C3_Witness ==
    /\ Recommended /\ TwoGroupContinuous(profile)
    /\ profile.sample_size = 30
    /\ Reco.primary = T_TEST
    /\ Len(Reco.alternatives) = 1

\* C4 (as claimed): when time_variable and event_variable are both set, the
\* recommender returns survival analysis alone, with no alternatives.
C4_SurvivalShortCircuit ==
    (Recommended /\ profile.time_variable # None /\ profile.event_variable # None) =>
        /\ Reco.primary = KAPLAN_MEIER
        /\ Reco.alternatives = << >>

\* no rule of the recommender matches: n_groups absent or fewer than 2
NoRuleMatches(p) == p.n_groups = None \/ p.n_groups[1] < 2

\* C5 (as claimed): when no rule matches, the recommender fails and returns
\* no primary test.
C5_NoRuleFails ==
    (Recommended /\ NoRuleMatches(profile)) => "primary" \notin DOMAIN Reco

\* C6: for a categorical outcome with n_groups >= 2 the primary is chi-square,
\* and Fisher's exact test (0.8) is an alternative exactly when n_groups = 2.
C6_GroupedCategorical ==
    (Recommended /\ GroupedCategorical(profile)) =>
        /\ Reco.primary = CHI_SQUARE
        /\ (FISHER_EXACT \in AltTests(Reco)) <=> (profile.n_groups = Some(2))
        /\ (profile.n_groups = Some(2)) => AltConfidence(Reco, FISHER_EXACT) = {80}
        /\ AltTests(Reco) \subseteq {FISHER_EXACT}

C6_Witness ==
    /\ Recommended /\ GroupedCategorical(profile)
    /\ profile.n_groups = Some(3)
    /\ Reco.primary = CHI_SQUARE
    /\ Reco.alternatives = << >>

\* C7: for a continuous outcome with more than two groups the primary is
\* one-way ANOVA and Kruskal-Wallis (0.8) is the alternative, whatever the
\* sample size.
C7_ManyGroupContinuous ==
    (Recommended /\ ManyGroupContinuous(profile)) =>
        /\ Reco.primary = ONE_WAY_ANOVA
        /\ AltTests(Reco) = {KRUSKAL_WALLIS}
        /\ AltConfidence(Reco, KRUSKAL_WALLIS) = {80}
        /\ Len(Reco.alternatives) = 1

C7_Witness ==
    /\ Recommended /\ ManyGroupContinuous(profile)
    /\ profile.sample_size < 30
    /\ Reco.primary = ONE_WAY_ANOVA
    /\ Len(Reco.alternatives) = 1

(***************************************************************************)
(* Claims about EngineOrchestrator.run_analysis (checked under SpecEngine).*)
(***************************************************************************)
Returned == pc = "done"
Outcome == outcome[1]

\* C1: no exception escapes run_analysis: a call in which a stage raised
\* returns status 'failed' with the error message, every other call returns
\* status 'completed'; nothing is raised or returned before the call ends.
C1_ErrorsAreValues ==
    /\ Returned =>
          /\ outcome # None
          /\ Outcome.status \in {"completed", "failed"}
          /\ raised # None => (Outcome.status = "failed" /\ Outcome.error = raised[1])
          /\ raised = None => Outcome.status = "completed"
    /\ ~Returned => (raised = None /\ outcome = None)

C1_Witness ==
    /\ Returned
    /\ inp.outcome_var = "nonexistent_column"
    /\ raised # None
    /\ Outcome.status = "failed"
    /\ Outcome.error = "KeyError: outcome_var"

\* C2 (as claimed): a completed run executed exactly the test named by
\* recommendation.primary.
C2_ExecutesPrimary ==
    (Returned /\ Outcome.status = "completed") =>
        TestKindOf(Outcome.final_result.test_name) = Outcome.recommendation.primary

(***************************************************************************)
(* Claims about the event normalizer (checked under SpecEvent).            *)
(***************************************************************************)
WasConverted == converted # None
Conv == converted[1]
NoMissing(series) == \A i \in DOMAIN series : series[i] # None
ValuesOf(series) == {series[i][1] : i \in DOMAIN series}

\* C8: for every event column without missing values the normalizer raises
\* nothing and returns a series of the same length holding only 0 and 1.
C8_BinarySameLength ==
    (WasConverted /\ NoMissing(event_column)) =>
        /\ Conv.ok
        /\ Len(Conv.values) = Len(event_column)
        /\ \A i \in DOMAIN Conv.values : Conv.values[i] \in {0, 1}

C8_Witness ==
    /\ WasConverted /\ NoMissing(event_column)
    /\ PyInt(2) \in ValuesOf(event_column)
    /\ PyInt(1) \in ValuesOf(event_column)
    /\ Conv.ok
    /\ Conv.pattern = "numeric_pair"
    /\ \E i \in DOMAIN Conv.values : Conv.values[i] = 1

\* the fixture sets of C9 and the code each fixture value stands for
FixtureSets ==
    {{PyInt(0), PyInt(1)}, {PyBool(TRUE), PyBool(FALSE)}, {YES, NO}, {DECEASED_1, LIVING_0}}
FixtureCode(v) == IF v \in {PyInt(1), PyBool(TRUE), YES, DECEASED_1} THEN 1 ELSE 0

\* C9: a column whose values all come from one of the fixture sets {0,1},
\* {True,False}, {"Yes","No"}, {"1:DECEASED","0:LIVING"} is converted row by
\* row, the event case (1, True, "Yes", "1:DECEASED") to 1 and the other to 0.
C9_Fixtures ==
    (WasConverted /\ NoMissing(event_column)
        /\ \E F \in FixtureSets : ValuesOf(event_column) \subseteq F) =>
        /\ Conv.ok
        /\ Conv.values = [i \in DOMAIN event_column |-> FixtureCode(event_column[i][1])]

C9_Witness ==
    /\ WasConverted
    /\ event_column = <<Some(DECEASED_1), Some(LIVING_0), Some(DECEASED_1)>>
    /\ Conv.ok
    /\ Conv.values = <<1, 0, 1>>

\* the code C10 claims for one value of a column with a ':' value: the
\* leading token decides ('1:' is 1, '0:' is 0), then the keywords
\* (dead/deceased is 1, alive/living is 0), anything else is 0
ClaimedColonCode(val) ==
    LET str_val == Strip(Lower(PyStr(val)))
    IN  IF StartsWith(str_val, <<"1", ":">>) THEN 1
        ELSE IF StartsWith(str_val, <<"0", ":">>) THEN 0
        ELSE IF Contains(str_val, <<"d", "e", "c", "e", "a", "s", "e", "d">>) \/ Contains(str_val, <<"d", "e", "a", "d">>) THEN 1
        ELSE 0

\* C10 (as claimed): in a column with a ':' value every value is coded on
\* its own, a value starting with '0:' as 0 and one starting with '1:' as 1,
\* and nothing is raised.
C10_ColonValues ==
    (WasConverted /\ NoMissing(event_column)
        /\ \E v \in ValuesOf(event_column) : Contains(PyStr(v), <<":">>)) =>
        /\ Conv.ok
        /\ Conv.values = [i \in DOMAIN event_column |-> ClaimedColonCode(event_column[i][1])]

\* a column of text values, none of them with a ':'
TextColumn(series) ==
    /\ series # << >>
    /\ NoMissing(series)
    /\ \A v \in ValuesOf(series) : v.kind = "str" /\ ~Contains(PyStr(v), <<":">>)

\* C11 (as claimed): in a text column without a ':' value every value is
\* coded on its own after lower-casing and trimming, an event term as 1, a
\* censored term and an unmatched value as 0; a row holding an event term is
\* coded 1 also when other rows hold unmatched values.
C11_VocabularyCoding ==
    (WasConverted /\ TextColumn(event_column)) =>
        /\ Conv.ok
        /\ Conv.values = [i \in DOMAIN event_column |-> VocabularyCode(event_column[i][1])]

(***************************************************************************)
(* Claims about the survival validation (checked under SpecValidate).      *)
(***************************************************************************)
Validated == pc = "validate" /\ outcome # None
Validation == outcome[1]
\* events / total as the claim reads it: 0 when there is no observation
RateIsZero == Sum(inp.event_data) = 0
RateIsOne == inp.event_data # << >> /\ Sum(inp.event_data) = Len(inp.event_data)
Borderline ==
    /\ ~RateIsZero /\ ~RateIsOne
    /\ \/ Sum(inp.event_data) * 100 > 95 * Len(inp.event_data)
       \/ Sum(inp.event_data) * 100 < 5 * Len(inp.event_data)
SomeNegativeTime == \E i \in DOMAIN inp.time_data : inp.time_data[i] < 0
AllTimesIdentical ==
    /\ inp.time_data # << >>
    /\ \A i, j \in DOMAIN inp.time_data : inp.time_data[i] = inp.time_data[j]

\* C12: the validation marks a series valid exactly when 0 < event_rate < 1,
\* no time is negative and the times are not all identical; a borderline
\* rate (above 0.95 or below 0.05, not 0 or 1) adds a warning and leaves the
\* series valid.
C12_ValidIff ==
    Validated =>
        /\ Validation.valid <=>
              (~RateIsZero /\ ~RateIsOne /\ ~SomeNegativeTime /\ ~AllTimesIdentical)
        /\ (Borderline /\ ~SomeNegativeTime /\ ~AllTimesIdentical) =>
              (Validation.valid /\ Validation.warnings # << >>)

C12_Witness ==
    /\ Validated
    /\ Len(inp.event_data) = 21 /\ Sum(inp.event_data) = 20
    /\ ~SomeNegativeTime /\ ~AllTimesIdentical
    /\ Validation.valid
    /\ Validation.warnings = <<"WARNING: Very high event rate">>

(***************************************************************************)
(* Claims about the survival paths (checked under SpecSurvival).           *)
(***************************************************************************)
Plotted == pc = "plot"
Served == pc \in {"service", "legacy"}
\* the path that ran got as far as a normalized survival series
HasSeries == (Plotted /\ converted[1].ok) \/ (Served /\ inp.group_var # None)
NormalizedSeries == IF Plotted THEN PlotSeries(inp) ELSE ServerSeries(inp)
InvalidSeries ==
    ~validate_survival_data(NormalizedSeries.time_data, NormalizedSeries.event_data).valid
RawEvents == {inp.data[i].event : i \in DOMAIN inp.data}

\* C13 (as claimed): whenever the normalized survival series is invalid (event
\* rate 0 or 1, a negative time, all times identical), the survival path ends
\* with an error and returns no result and no curve.
C13_InvalidFails ==
    (HasSeries /\ InvalidSeries) => (raised # None /\ result = None)

\* C14: on every survival path each event value handed to a Kaplan-Meier fit
\* or to the log-rank test is 0 or 1, whatever the coding of the raw column.
C14_OnlyZeroOne ==
    \A c \in DOMAIN lifelines_calls :
        \A k \in DOMAIN lifelines_calls[c].event_observed :
            lifelines_calls[c].event_observed[k] \in {0, 1}

C14_Witness ==
    /\ pc = "service"
    /\ Some(PyInt(2)) \in RawEvents /\ Some(PyInt(1)) \in RawEvents
    /\ \E c \in DOMAIN lifelines_calls :
          /\ lifelines_calls[c].fn = "logrank_test"
          /\ \E k \in DOMAIN lifelines_calls[c].event_observed :
                lifelines_calls[c].event_observed[k] = 1
          /\ \E k \in DOMAIN lifelines_calls[c].event_observed :
                lifelines_calls[c].event_observed[k] = 0

\* C15 (as claimed): a survival result carries the log-rank statistic and
\* p-value exactly when the cleaned data has two groups; with any other
\* number of groups it carries no statistic and no p-value, computed or
\* substituted.
C15_LogRankOnlyForTwo ==
    /\ (Served /\ result # None) =>
          IF Len(Unique(ServerSeries(inp).group)) = 2
          THEN /\ result[1].statistic = Some("logrank_result.test_statistic")
               /\ result[1].p_value = Some("logrank_result.p_value")
          ELSE /\ result[1].statistic = None
               /\ result[1].p_value = None
    /\ (Plotted /\ result # None /\ inp.group_var # None) =>
          (result[1].annotation # None <=> Len(Unique(PlotSeries(inp).group)) = 2)

(***************************************************************************)
(* Claims about the t-test workflow (checked under SpecEngine) and about   *)
(* check_normality (checked under SpecAssumption).                         *)
(***************************************************************************)
\* run_analysis returned the result of the t-test workflow
TTestCompleted ==
    /\ Returned
    /\ Outcome.status = "completed"
    /\ Outcome.final_result.test_name \in {"Student's t-test", "Welch's t-test"}

\* C16: the workflow runs Student's t-test exactly when check_equal_variance
\* passed and Welch's t-test in every other case, also when the variance
\* check gave no p-value; test_name names the variant.
C16_VariantByVariance ==
    TTestCompleted =>
        LET equal_var == Outcome.final_result.assumptions.equal_variance
        IN  /\ equal_var.passed <=> (equal_var.p_value # None /\ equal_var.p_value[1] # NaN
                                       /\ equal_var.p_value[1] > Alpha)
            /\ equal_var.passed => Outcome.final_result.test_name = "Student's t-test"
            /\ ~equal_var.passed => Outcome.final_result.test_name = "Welch's t-test"

C16_Witness ==
    /\ TTestCompleted
    /\ Outcome.final_result.assumptions.equal_variance.p_value \in {None, Some(NaN)}
    /\ ~Outcome.final_result.assumptions.equal_variance.passed
    /\ Outcome.final_result.test_name = "Welch's t-test"

NormalityReasons == {"Insufficient data for normality test", "Test failed"}

NormalityChecked == pc = "assumption" /\ outcome # None

\* C18: with fewer than 3 observations check_normality returns passed = false
\* with the reason "Insufficient data ...", no statistic and no p-value,
\* whatever the normality test would say; with 3 or more, passed is
\* p_value > alpha, so a p-value equal to alpha does not pass.
C18_NormalityThreshold ==
    NormalityChecked =>
        LET r == outcome[1]
        IN  /\ Len(inp.data) < 3 =>
                  /\ ~r.passed
                  /\ r.reason = Some("Insufficient data for normality test")
                  /\ r.statistic = None
                  /\ r.p_value = None
            /\ (Len(inp.data) >= 3 /\ r.p_value # None) =>
                  /\ r.p_value = Some(inp.shapiro)
                  /\ r.passed <=> (r.p_value[1] # NaN /\ r.p_value[1] > inp.alpha)
                  /\ r.p_value[1] = inp.alpha => ~r.passed
            /\ (Len(inp.data) >= 3 /\ r.p_value = None) =>
                  (~r.passed /\ inp.shapiro = Raises)

C18_Witness ==
    /\ NormalityChecked
    /\ Len(inp.data) = 2
    /\ inp.shapiro = inp.alpha + 1
    /\ ~outcome[1].passed
    /\ outcome[1].p_value = None

(***************************************************************************)
(* Claims about the type inference (checked under SpecType).               *)
(***************************************************************************)
TypeDetermined == pc = "type" /\ outcome # None
\* the column without its missing cells
Present == {i \in DOMAIN inp : inp[i] # None}
Distinct == Cardinality({inp[i] : i \in Present})
Total == Cardinality(Present)
NumericColumn == Present # {} /\ \A i \in Present : inp[i][1].kind = "num"
NonIntegerColumn == Present # {} /\ \A i \in Present : "half" \in DOMAIN inp[i][1]

C20_FewDistinctMeasurements ==
    (TypeDetermined /\ NonIntegerColumn /\ Distinct < 10
        /\ (Total = 50 \/ Total = 24)) =>
        outcome[1] = "continuous"

(***************************************************************************)
(* Claims about DataProfiler.profile_data (checked under SpecEngine).      *)
(***************************************************************************)
Profiled == profile # None
\* the rows of the dataset that carry the group label g
RowsOfGroup(g) == {i \in DOMAIN inp.data : inp.data[i].group = Some(g)}
\* the labels found in the group column, missing values left out
LabelsPresent ==
    {inp.data[i].group[1] : i \in {j \in DOMAIN inp.data : inp.data[j].group # None}}
GroupColumnGiven == inp.group_var = Some("group") /\ inp.data # << >>

\* C21: is_paired is true only when there are exactly two groups, both of the
\* same size k, and sample_size = 2k; it is false without a group variable,
\* when n_groups is not 2 and when the two sizes differ.
C21_IsPaired ==
    Profiled =>
        /\ profile[1].is_paired =>
              /\ GroupColumnGiven
              /\ profile[1].n_groups = Some(2)
              /\ Cardinality(LabelsPresent) = 2
              /\ \E k \in 0..Len(inp.data) :
                    /\ \A g \in LabelsPresent : Cardinality(RowsOfGroup(g)) = k
                    /\ profile[1].sample_size = 2 * k
        /\ inp.group_var = None => ~profile[1].is_paired
        /\ profile[1].n_groups # Some(2) => ~profile[1].is_paired
        /\ (\E g, h \in LabelsPresent :
               Cardinality(RowsOfGroup(g)) # Cardinality(RowsOfGroup(h)))
              => ~profile[1].is_paired

C21_Witness ==
    /\ Profiled
    /\ profile[1].is_paired
    /\ profile[1].n_groups = Some(2)
    /\ profile[1].sample_size = 24
    /\ \A g \in LabelsPresent : Cardinality(RowsOfGroup(g)) = 12

\* sum(group_sizes.values())
SumOfSizes(group_sizes) ==
    LET RECURSIVE Add(_)
        Add(keys) ==
            IF keys = {} THEN 0
            ELSE LET key == CHOOSE x \in keys : TRUE
                 IN  group_sizes[key] + Add(keys \ {key})
    IN  Add(DOMAIN group_sizes)

\* C22 (as claimed): in a profile with a group variable the values of
\* group_sizes sum to sample_size, and n_groups is the number of group_labels
\* and the number of keys of group_sizes.
C22_GroupSizesSum ==
    (Profiled /\ profile[1].group_sizes # None) =>
        /\ SumOfSizes(profile[1].group_sizes[1]) = profile[1].sample_size
        /\ profile[1].n_groups = Some(Len(profile[1].group_labels[1]))
        /\ profile[1].n_groups = Some(Cardinality(DOMAIN profile[1].group_sizes[1]))

\* C23 (as claimed): profile_data fails whenever outcome_var or group_var
\* names a column the rows do not have; no profile is returned for such a
\* call.
C23_UnknownColumnFails ==
    (pc # "start" /\ (\/ inp.outcome_var \notin Columns(inp.data)
                      \/ (inp.group_var # None /\ inp.group_var[1] \notin Columns(inp.data)))) =>
        (profile = None /\ raised # None)

(***************************************************************************)
(* Claims about the chi-square paths (checked under SpecChiSquare).        *)
(***************************************************************************)
ChiSquareRan == pc \in {"workflow", "service"}
Table == Crosstab(inp.data, "group", "outcome")
\* every expected cell count (row total * column total / total) is >= 5
EveryExpectedAtLeastFive ==
    \A r \in Table.index, c \in Table.columns :
        Table.row_totals[r] * Table.col_totals[c] >= 5 * Table.total
\* the assumption flag of the result of the path that ran
AssumptionFlag ==
    IF pc = "workflow" THEN result[1].assumptions.min_expected_frequency.passed
    ELSE result[1].assumptions_met

\* C24 (as claimed): a chi-square test on a table with data returns its
\* result whether the flag is true or false, and the flag is true exactly
\* when every expected cell count is at least 5.
C24_ExpectedCountFlag ==
    (ChiSquareRan /\ Table.total > 0) =>
        /\ result # None
        /\ AssumptionFlag <=> EveryExpectedAtLeastFive

\* the part of C24 that the engine's workflow satisfies
C24_WorkflowFlag ==
    (pc = "workflow" /\ Table.total > 0) =>
        /\ result # None
        /\ AssumptionFlag <=> EveryExpectedAtLeastFive

(***************************************************************************)
(* Claims about the numbers of a result (checked under SpecEngine).        *)
(***************************************************************************)
Completed == Returned /\ Outcome.status = "completed"
EffectSizes == {Outcome.final_result.effect_size[f] : f \in DOMAIN Outcome.final_result.effect_size}

\* C25 (as claimed): a completed analysis returns finite numbers only: its
\* effect size is never nan or inf, because an input that would produce one
\* makes the executor fail and run_analysis return status 'failed'.
C25_FiniteNumbers == Completed => EffectSizes \subseteq {"finite"}

(***************************************************************************)
(* Claims about the warnings of the survival plot (checked under           *)
(* SpecSurvival).                                                          *)
(***************************************************************************)
FigureReturned == pc = "plot" /\ result # None
\* the warnings attached to the result returned
WarningsAttached ==
    IF "warnings" \in DOMAIN result[1] THEN result[1].warnings ELSE {}

\* C26 (as claimed): every warning issued while a survival plot was made
\* (an unknown event value treated as censored, the fallback for an event
\* column that could not be read, a borderline event rate) is attached to
\* the result that is returned: none is dropped or only printed.
C26_WarningsAttached ==
    FigureReturned => PlotPrints(inp) \subseteq WarningsAttached

(***************************************************************************)
(* Claims about the order and the agreement of the stages of run_analysis  *)
(* (checked under SpecEngine).                                             *)
(***************************************************************************)
\* the primary tests whose validity does not depend on normality or on
\* equal variances
NotAssumptionSensitive == {MANN_WHITNEY, KRUSKAL_WALLIS, CHI_SQUARE, FISHER_EXACT}
NormalityAndVarianceEntries == {"normality_group1", "normality_group2", "equal_variance"}

\* C27 (as claimed): the normality and variance checks run in the step that
\* follows the recommendation and precedes the test, and only for an
\* assumption-sensitive primary test: when the primary test is Mann-Whitney,
\* Kruskal-Wallis, chi-square or Fisher's exact test, the step that executes
\* the test leaves no normality or variance entry among the assumptions.
C27_ChecksOnlyWhenSensitive ==
    [][(pc = "recommended" /\ pc' = "executed"
        /\ recommendation[1].primary \in NotAssumptionSensitive)
       => (DOMAIN result'[1].assumptions) \cap NormalityAndVarianceEntries = {}]_vars


\* C28 (as claimed): the profiler and the t-test workflow agree on the
\* groups: when profile_data reported n_groups = 2 and the t-test workflow
\* ran, the workflow found two groups and did not fail with 'T-test requires
\* exactly 2 groups', whether or not a row has a missing group value.
C28_GroupCountAgrees ==
    (pc \in {"executed", "done"} /\ profile # None /\ profile[1].n_groups = Some(2)
        /\ recommendation # None
        /\ Dispatch(recommendation[1].primary) # "chi_square_workflow")
    => raised # Some("T-test requires exactly 2 groups")

(***************************************************************************)
(* Claims about the cleaning of survival rows (checked under SpecSurvival).*)
(***************************************************************************)
SurvivalRan == pc \in {"plot", "service", "legacy"}
\* a row that survives dropna() and is dropped for its non-numeric time
NonNumericTimeRows ==
    {i \in DOMAIN inp.data :
        /\ inp.data[i].time = Some(NOT_A_TIME)
        /\ inp.data[i].event # None
        /\ inp.data[i].group # None}

\* C29 (as claimed): when rows with a non-numeric time are dropped, whether
\* the first, a middle or the last row, the selection of each group's times
\* and events raises no indexing error and hands every fit arrays of equal
\* length.
C29_AlignedAfterDrop ==
    (SurvivalRan /\ inp.group_var # None /\ NonNumericTimeRows # {}) =>
        /\ raised # Some(IndexingError)
        /\ \A c \in DOMAIN lifelines_calls :
              lifelines_calls[c].fn = "KaplanMeierFitter.fit" =>
                  Len(lifelines_calls[c].durations) = Len(lifelines_calls[c].event_observed)

\* the case of C29 in which nothing goes wrong: the row dropped is the last
C29_LastRowDropped ==
    (SurvivalRan /\ inp.group_var # None /\ NonNumericTimeRows = {Len(inp.data)}
        /\ \A i \in DOMAIN inp.data : inp.data[i].event # None)
    => raised # Some(IndexingError)

(***************************************************************************)
(* Claims about the two event codings (checked under SpecEvent).           *)
(***************************************************************************)
\* C30 (as claimed): for every event column without missing values the
\* inline coding of _perform_survival_analysis gives each row the code that
\* _detect_and_convert_event_variable gives it.
C30_InlineCodingAgrees ==
    (WasConverted /\ NoMissing(event_column) /\ event_column # << >>) =>
        /\ Conv.ok
        /\ Conv.values = inline_event_coding(event_column)

====
